---- MODULE Spec2Model ----
(***************************************************************************)
(* fix_compile_commands.py: rewriting the stale build-output paths of a    *)
(* compilation database to paths in the source roots (Spec, SpecFdFails,   *)
(* and _get_best_match on its own in SpecScore); the target selection of   *)
(* uvprojx2compileDatabase.py (SpecParse); and the two threads of build.py *)
(* (SpecBuild).  Each specification runs one script and leaves the         *)
(* variables of the others at rest.                                        *)
(*                                                                         *)
(* A Python str is a sequence of one-character strings, so that split,     *)
(* substring tests, endswith and the os.path functions are computed on the *)
(* characters as the interpreter computes them.                            *)
(***************************************************************************)
EXTENDS Integers, Sequences, FiniteSets, TLC

\* ------------------------------------------------------------------ str

\* os.sep on the POSIX hosts the script is written for.
SEP == "/"

\* Python's None, and the empty str.
None == <<"None">>
EMPTY == <<>>

Min(a, b) == IF a <= b THEN a ELSE b

Max(a, b) == IF a >= b THEN a ELSE b

\* s[i:] with a 0-based Python index 0 <= i.
From(s, i) == SubSeq(s, i + 1, Len(s))

\* s.startswith(pre)
StartsWith(s, pre) == Len(pre) <= Len(s) /\ SubSeq(s, 1, Len(pre)) = pre

\* s.endswith(suf)
EndsWith(s, suf) ==
    Len(suf) <= Len(s) /\ SubSeq(s, Len(s) - Len(suf) + 1, Len(s)) = suf

\* The 1-based positions at which sub occurs in s.
Occurrences(s, sub) ==
    {i \in 1..(Len(s) - Len(sub) + 1) : SubSeq(s, i, i + Len(sub) - 1) = sub}

\* sub in s
Contains(s, sub) == Occurrences(s, sub) # {}

\* s.split(sub, 1)[1]: what follows the first occurrence of sub.
AfterFirst(s, sub) ==
    LET i == CHOOSE k \in Occurrences(s, sub) :
                 \A j \in Occurrences(s, sub) : k <= j
    IN  SubSeq(s, i + Len(sub), Len(s))

\* s.split(c) for a one-character separator: n separators give n+1 parts.
RECURSIVE Split(_, _)
Split(s, c) ==
    IF \A i \in DOMAIN s : s[i] # c
    THEN <<s>>
    ELSE LET i == CHOOSE k \in DOMAIN s :
                      s[k] = c /\ \A j \in 1..(k - 1) : s[j] # c
         IN  <<SubSeq(s, 1, i - 1)>> \o Split(SubSeq(s, i + 1, Len(s)), c)

\* s.rstrip(c)
RECURSIVE RStrip(_, _)
RStrip(s, c) ==
    IF s # <<>> /\ s[Len(s)] = c THEN RStrip(SubSeq(s, 1, Len(s) - 1), c) ELSE s

\* The characters of a str, Python's set(s).
CharSet(s) == {s[i] : i \in DOMAIN s}

\* parts[-n:]
LastN(parts, n) == SubSeq(parts, Max(1, Len(parts) - n + 1), Len(parts))

\* [x for x in parts if x]
RECURSIVE NonEmpty(_)
NonEmpty(parts) ==
    IF parts = <<>> THEN <<>>
    ELSE (IF Head(parts) = EMPTY THEN <<>> ELSE <<Head(parts)>>)
         \o NonEmpty(Tail(parts))

\* sep.join(parts)
RECURSIVE JoinWith(_, _)
JoinWith(parts, c) ==
    IF parts = <<>> THEN EMPTY
    ELSE IF Len(parts) = 1 THEN parts[1]
    ELSE parts[1] \o <<c>> \o JoinWith(Tail(parts), c)

\* -------------------------------------------------------------- os.path

\* The process's working directory, which abspath prepends to a relative path.
CWD == <<"/", "w">>

\* posixpath.isabs
IsAbs(p) == StartsWith(p, <<SEP>>)

\* posixpath.join(a, b)
Join(a, b) ==
    IF IsAbs(b) THEN b
    ELSE IF a = EMPTY \/ EndsWith(a, <<SEP>>) THEN a \o b
    ELSE a \o <<SEP>> \o b

\* posixpath.join(a, *parts)
RECURSIVE JoinAll(_, _)
JoinAll(a, parts) ==
    IF parts = <<>> THEN a ELSE JoinAll(Join(a, Head(parts)), Tail(parts))

\* posixpath.basename: what follows the last separator.
Basename(p) ==
    LET parts == Split(p, SEP) IN parts[Len(parts)]

\* posixpath.dirname: the head up to the last separator, its trailing
\* separators stripped unless it consists of separators only.
Dirname(p) ==
    LET parts == Split(p, SEP)
        head == SubSeq(p, 1, Len(p) - Len(parts[Len(parts)]))
    IN  IF head # EMPTY /\ CharSet(head) # {SEP} THEN RStrip(head, SEP) ELSE head

\* The component stack of posixpath.normpath.
RECURSIVE NormComps(_, _, _)
NormComps(comps, acc, rooted) ==
    IF comps = <<>> THEN acc
    ELSE LET c == Head(comps)
             dotdot == <<".", ".">>
         IN  IF c = EMPTY \/ c = <<".">>
             THEN NormComps(Tail(comps), acc, rooted)
             ELSE IF c # dotdot
                     \/ (~rooted /\ acc = <<>>)
                     \/ (acc # <<>> /\ acc[Len(acc)] = dotdot)
             THEN NormComps(Tail(comps), Append(acc, c), rooted)
             ELSE IF acc # <<>>
             THEN NormComps(Tail(comps), SubSeq(acc, 1, Len(acc) - 1), rooted)
             ELSE NormComps(Tail(comps), acc, rooted)

\* posixpath.normpath
Normpath(p) ==
    IF p = EMPTY THEN <<".">>
    ELSE LET slashes == IF ~IsAbs(p) THEN 0
                        ELSE IF StartsWith(p, <<SEP, SEP>>)
                                /\ ~StartsWith(p, <<SEP, SEP, SEP>>) THEN 2
                        ELSE 1
             body == JoinWith(NormComps(Split(p, SEP), <<>>, slashes > 0), SEP)
             out == [i \in 1..slashes |-> SEP] \o body
         IN  IF out = EMPTY THEN <<".">> ELSE out

\* posixpath.abspath
Abspath(p) == Normpath(IF IsAbs(p) THEN p ELSE Join(CWD, p))

\* The length of the common prefix of two component lists.
RECURSIVE CommonLen(_, _)
CommonLen(a, b) ==
    IF a = <<>> \/ b = <<>> \/ Head(a) # Head(b) THEN 0
    ELSE 1 + CommonLen(Tail(a), Tail(b))

\* posixpath.relpath(path, start) for a non-empty path (the only ValueError
\* of the POSIX implementation is raised for an empty path).
Relpath(path, start) ==
    LET start_list == NonEmpty(Split(Abspath(start), SEP))
        path_list == NonEmpty(Split(Abspath(path), SEP))
        i == CommonLen(start_list, path_list)
        rel_list == [k \in 1..(Len(start_list) - i) |-> <<".", ".">>]
                    \o SubSeq(path_list, i + 1, Len(path_list))
    IN  IF rel_list = <<>> THEN <<".">> ELSE JoinAll(Head(rel_list), Tail(rel_list))

\* ------------------------------------------------------------ constants

\* 'output/', the mark of a stale path (find_real_path, process_entry).
OUTPUT_SLASH == <<"o", "u", "t", "p", "u", "t", "/">>

\* 'output/build/', after which _get_best_match takes the suffix to compare.
OUTPUT_BUILD == OUTPUT_SLASH \o <<"b", "u", "i", "l", "d", "/">>

\* EXCLUDED_DIRS = [".cache", "output"]
EXCLUDED_DIRS == << <<".", "c", "a", "c", "h", "e">>,
                    <<"o", "u", "t", "p", "u", "t">> >>

\* A threshold of 1.0, which an equal file name alone reaches.
THRESHOLD_ONE == [num |-> 1, den |-> 1]

\* MIN_SCORE_THRESHOLD = 1.5, as the fraction 3/2.
MIN_SCORE_THRESHOLD == [num |-> 3, den |-> 2]

\* The suffixes ('.c', '.cpp', '.h', '.S') of a relative source reference.
SOURCE_SUFFIXES == { <<".", "c">>, <<".", "c", "p", "p">>, <<".", "h">>, <<".", "S">> }

\* ---------------------------------------------------------------- state

VARIABLES
    \* fix_compile_commands.py
    source_roots,    \* sys.argv[2:], absolute
    fs,              \* the files of the source trees, in the provider's output order
    fd_missing,      \* no fd executable: subprocess.run raises FileNotFoundError
    fd_fails,        \* the search terms on which fd exits non-zero
    data,            \* the entries loaded from the input file
    total_entries,   \* len(data)
    idx,             \* the loop's position in data, from 1
    entry,           \* the entry process_entry is working on
    frame,           \* the locals of process_entry
    call,            \* the find_real_path call in progress
    PATH_CACHE,      \* path -> resolved path, the path itself, or None
    processed_data,  \* the entries appended so far
    out_file,        \* what json.dump wrote
    status,          \* the closing message of main
    pc,              \* the position of main
    interrupted,     \* the except clause of the loop has run
    pass,            \* "first": the run on the input; "second": the run on its output
    log,             \* the calls of find_real_path and of the provider, in order
    \* _get_best_match called on its own
    gbm_matches,     \* the argument matches
    gbm_original,    \* the argument original_path
    gbm_scores,      \* the score the loop computed for each candidate, by position
    gbm_best,        \* best_score and best_match_path when the loop ends
    gbm_result,      \* what the call returned
    gbm_pc,          \* "call" before the call, "returned" after it
    \* uvprojx2compileDatabase.py, parse_uvprojx
    uv_root,         \* the Target elements of the project file, in document order
    uv_target_name,  \* the argument target_name
    uv_target,       \* the position in uv_root of the local target, 0 for None
    uv_files,        \* files_data
    uv_pc,           \* the position of parse_uvprojx
    \* build.py
    runing,          \* the global flag of that name
    keil,            \* the lines the Keil command has still to write
    written,         \* the lines the Keil command has written, in order
    logfile,         \* the lines in build.log
    line_no,         \* the reader's position in build.log, in lines
    printed,         \* the lines the reader has printed
    err,             \* the local err of readfile
    banner,          \* the closing banner readfile printed, "" before it
    main_pc,         \* the position of the main thread
    reader_pc        \* the position of the thread that runs readfile

\* The variables of each script.
fix_vars == <<source_roots, fs, fd_missing, fd_fails, data, total_entries, idx,
              entry, frame, call, PATH_CACHE, processed_data, out_file, status,
              pc, interrupted, pass, log>>

gbm_vars == <<gbm_matches, gbm_original, gbm_scores, gbm_best, gbm_result,
              gbm_pc>>

uv_vars == <<uv_root, uv_target_name, uv_target, uv_files, uv_pc>>

build_vars == <<runing, keil, written, logfile, line_no, printed, err, banner,
                main_pc, reader_pc>>

vars == <<fix_vars, gbm_vars, uv_vars, build_vars>>

\* A script that is not run.
FixOff ==
    /\ source_roots = <<>> /\ fs = <<>> /\ fd_missing = FALSE /\ fd_fails = {}
    /\ data = <<>> /\ total_entries = 0 /\ idx = 1
    /\ entry = <<>> /\ frame = <<>> /\ call = <<>> /\ PATH_CACHE = << >>
    /\ processed_data = <<>> /\ out_file = <<>> /\ status = "" /\ pc = "off"
    /\ interrupted = FALSE /\ pass = "first" /\ log = <<>>

GbmOff ==
    /\ gbm_matches = <<>> /\ gbm_original = <<>> /\ gbm_scores = <<>>
    /\ gbm_best = <<>> /\ gbm_result = <<>> /\ gbm_pc = "off"

UvOff ==
    /\ uv_root = <<>> /\ uv_target_name = <<>> /\ uv_target = 0
    /\ uv_files = <<>> /\ uv_pc = "off"

BuildOff ==
    /\ runing = TRUE /\ keil = <<>> /\ written = <<>> /\ logfile = <<>>
    /\ line_no = 0
    /\ printed = <<>> /\ err = FALSE /\ banner = "" /\ main_pc = "off"
    /\ reader_pc = "off"

\* --------------------------------------------------------------- scorer

\* Scores are sums of 1.0 and one quotient of two small integers; they are
\* kept as exact fractions num/den, den > 0.  The float operations of the
\* script order and equate these values as the fractions do.
Frac(n, d) == [num |-> n, den |-> d]

FracAdd(x, y) == Frac(x.num * y.den + y.num * x.den, x.den * y.den)

FracLess(x, y) == x.num * y.den < y.num * x.den

\* A similarity that divides the common characters by the length of the
\* longer string instead of the size of the union.
SimilarityOverLonger(a, b) ==
    LET intersection == Cardinality(CharSet(a) \cap CharSet(b))
        longer == Max(Len(a), Len(b))
    IN  IF longer > 0 THEN Frac(intersection, longer) ELSE Frac(0, 1)

\* _simple_string_similarity: |set(a) & set(b)| / |set(a) | set(b)|, 0.0 when
\* the union is empty.
SimpleStringSimilarity(a, b) ==
    LET intersection == Cardinality(CharSet(a) \cap CharSet(b))
        union == Cardinality(CharSet(a) \cup CharSet(b))
    IN  IF union > 0 THEN Frac(intersection, union) ELSE Frac(0, 1)

\* original_suffix_parts of _get_best_match.
OriginalSuffixParts(original_path) ==
    IF Contains(original_path, OUTPUT_BUILD)
    THEN Split(AfterFirst(original_path, OUTPUT_BUILD), SEP)
    ELSE LastN(Split(original_path, SEP), 4)

\* An inner loop without the break: every unequal pair adds its similarity
\* and the comparison goes on to the left.
RECURSIVE ScoreFromNoBreak(_, _, _, _)
ScoreFromNoBreak(original_suffix_parts, match_parts, i, score) ==
    IF i > Min(Len(original_suffix_parts), Len(match_parts)) THEN score
    ELSE LET original_part == original_suffix_parts[Len(original_suffix_parts) - i + 1]
             match_part == match_parts[Len(match_parts) - i + 1]
         IN  ScoreFromNoBreak(original_suffix_parts, match_parts, i + 1,
                              FracAdd(score,
                                      IF original_part = match_part THEN Frac(1, 1)
                                      ELSE SimpleStringSimilarity(original_part,
                                                                  match_part)))

\* The inner loop of _get_best_match from position i: parts compared from the
\* right, 1.0 for an equal pair, the similarity of the first unequal pair, stop.
RECURSIVE ScoreFrom(_, _, _, _)
ScoreFrom(original_suffix_parts, match_parts, i, score) ==
    IF i > Min(Len(original_suffix_parts), Len(match_parts)) THEN score
    ELSE LET original_part == original_suffix_parts[Len(original_suffix_parts) - i + 1]
             match_part == match_parts[Len(match_parts) - i + 1]
         IN  IF original_part = match_part
             THEN ScoreFrom(original_suffix_parts, match_parts, i + 1,
                            FracAdd(score, Frac(1, 1)))
             ELSE FracAdd(score, SimpleStringSimilarity(original_part, match_part))

\* The score _get_best_match gives one candidate.
Score(match_path, original_path) ==
    ScoreFrom(OriginalSuffixParts(original_path), Split(match_path, SEP), 1, Frac(0, 1))

\* An outer loop that replaces the running best also on an equal score
\* (score >= best_score).
RECURSIVE BestOfLastWins(_, _, _)
BestOfLastWins(matches, original_path, best) ==
    IF matches = <<>> THEN best
    ELSE LET score == Score(Head(matches), original_path)
         IN  BestOfLastWins(Tail(matches), original_path,
                            IF ~FracLess(score, best.score)
                            THEN [score |-> score, path |-> Head(matches)]
                            ELSE best)

\* The outer loop of _get_best_match: the running best is replaced only by a
\* strictly greater score.
RECURSIVE BestOf(_, _, _)
BestOf(matches, original_path, best) ==
    IF matches = <<>> THEN best
    ELSE LET score == Score(Head(matches), original_path)
         IN  BestOf(Tail(matches), original_path,
                    IF FracLess(best.score, score)
                    THEN [score |-> score, path |-> Head(matches)]
                    ELSE best)

\* best_score and best_match_path when the loop of _get_best_match ends.
BestCandidate(matches, original_path) ==
    BestOf(matches, original_path, [score |-> Frac(-1, 1), path |-> None])

\* Python truth of an Optional[str].
Truthy(x) == x # None /\ x # EMPTY

\* A _get_best_match that also rejects a best score equal to the threshold.
GetBestMatchAbove(matches, original_path) ==
    IF matches = <<>> THEN None
    ELSE LET best == BestCandidate(matches, original_path)
         IN  IF ~FracLess(MIN_SCORE_THRESHOLD, best.score) THEN None
             ELSE IF Truthy(best.path) THEN Abspath(best.path)
             ELSE None

\* _get_best_match
GetBestMatch(matches, original_path) ==
    IF matches = <<>> THEN None
    ELSE LET best == BestCandidate(matches, original_path)
         IN  IF FracLess(best.score, MIN_SCORE_THRESHOLD) THEN None
             ELSE IF Truthy(best.path) THEN Abspath(best.path)
             ELSE None

\* ------------------------------------------------------ search provider

UPPER == <<"A", "B", "C", "D", "E", "F", "G", "H", "I", "J", "K", "L", "M",
           "N", "O", "P", "Q", "R", "S", "T", "U", "V", "W", "X", "Y", "Z">>

LOWER == <<"a", "b", "c", "d", "e", "f", "g", "h", "i", "j", "k", "l", "m",
           "n", "o", "p", "q", "r", "s", "t", "u", "v", "w", "x", "y", "z">>

HasUpper(s) == \E i \in DOMAIN s : \E k \in DOMAIN UPPER : s[i] = UPPER[k]

LowerCase(s) ==
    [i \in DOMAIN s |->
        IF \E k \in DOMAIN UPPER : s[i] = UPPER[k]
        THEN LOWER[CHOOSE k \in DOMAIN UPPER : s[i] = UPPER[k]]
        ELSE s[i]]

\* re.escape: a backslash before each special character.
RE_SPECIAL == {"(", ")", "[", "]", "{", "}", "?", "*", "+", "-", "|", "^", "$",
               "\\", ".", "&", "~", "#", " "}

RECURSIVE ReEscape(_)
ReEscape(s) ==
    IF s = <<>> THEN <<>>
    ELSE (IF Head(s) \in RE_SPECIAL THEN <<"\\", Head(s)>> ELSE <<Head(s)>>)
         \o ReEscape(Tail(s))

\* f"^{re.escape(name)}$"
RegexTerm(name) == <<"^">> \o ReEscape(name) \o <<"$">>

\* A file lies below a root, and --exclude prunes every directory or file
\* below the root that bears an excluded name.
UnderRoot(file, root) == StartsWith(file, root \o <<SEP>>)

Excluded(file, root) ==
    LET below == Split(From(file, Len(root) + 1), SEP)
    IN  \E i \in DOMAIN below : \E k \in DOMAIN EXCLUDED_DIRS : below[i] = EXCLUDED_DIRS[k]

\* The provider's matching (fd -HI): the term occurs in the path, or with
\* --regex the anchored escaped name is the whole file name; letter case is
\* ignored unless the pattern has a capital.
FdMatches(term, is_regex, file) ==
    LET fold(s) == IF HasUpper(term) THEN s ELSE LowerCase(s)
    IN  IF is_regex
        THEN RegexTerm(fold(Basename(file))) = term
        ELSE Contains(fold(file), term)

\* A _run_fd_search without check=True: the lines fd printed are taken also
\* when it exited non-zero.
RunFdSearchUnchecked(search_term, roots, is_regex) ==
    LET Hit(file) ==
            /\ \E r \in DOMAIN roots :
                   UnderRoot(file, roots[r]) /\ ~Excluded(file, roots[r])
            /\ FdMatches(search_term, is_regex, file)
    IN  IF fd_missing THEN <<>> ELSE SelectSeq(fs, Hit)

\* _run_fd_search: the lines the provider prints for the command, in its
\* order; FileNotFoundError (no fd executable) and CalledProcessError (fd
\* exits non-zero) are caught and give the empty list.
RunFdSearch(search_term, roots, is_regex) ==
    LET Hit(file) ==
            /\ \E r \in DOMAIN roots :
                   UnderRoot(file, roots[r]) /\ ~Excluded(file, roots[r])
            /\ FdMatches(search_term, is_regex, file)
    IN  IF fd_missing \/ search_term \in fd_fails THEN <<>>
        ELSE SelectSeq(fs, Hit)

\* ------------------------------------------------------- find_real_path

\* Strategy 1 of find_real_path: the search term "parent/name", or None when
\* the path has no parent directory to name.
SearchTerm(path) ==
    LET p == RStrip(path, SEP)
        parent == Dirname(p)
    IN  IF parent # EMPTY /\ parent # <<SEP>>
        THEN Join(Basename(parent), Basename(p))
        ELSE None

\* Strategy 1: the lines of one search over all source roots that end with
\* the term.
Candidates1(path) ==
    LET search_term == SearchTerm(path)
        EndsWithTerm(m) == EndsWith(m, search_term)
    IN  SelectSeq(RunFdSearch(search_term, source_roots, FALSE), EndsWithTerm)

\* A strategy 1 that searches one root after the other and takes the best
\* match of the first root that has one.
Strategy1RootByRoot(path) ==
    LET search_term == SearchTerm(path)
        EndsWithTerm(m) == EndsWith(m, search_term)
        InRoot(r) ==
            GetBestMatch(SelectSeq(RunFdSearch(search_term, <<source_roots[r]>>, FALSE),
                                   EndsWithTerm), path)
        found == {r \in DOMAIN source_roots : Truthy(InRoot(r))}
    IN  IF search_term = None \/ found = {} THEN None
        ELSE InRoot(CHOOSE r \in found : \A q \in found : r <= q)

\* Strategy 1: the best of its candidates, None when the path has no parent
\* directory to name.
Strategy1(path) ==
    IF SearchTerm(path) = None THEN None
    ELSE GetBestMatch(Candidates1(path), path)

\* Strategy 2: the lines of one search over all source roots for the files
\* whose name is exactly the basename.
Candidates2(path) == RunFdSearch(RegexTerm(Basename(path)), source_roots, TRUE)

\* Strategy 2: the best of its candidates, None when the path has no basename.
Strategy2(path) ==
    IF Basename(path) = EMPTY THEN None
    ELSE GetBestMatch(Candidates2(path), path)

\* What find_real_path returns for a path that is not in the cache.
Resolve(path) ==
    IF ~Contains(path, OUTPUT_SLASH) THEN path
    ELSE IF Truthy(Strategy1(path)) THEN Strategy1(path)
    ELSE IF Truthy(Strategy2(path)) THEN Strategy2(path)
    ELSE None

\* -------------------------------------------------------- process_entry

\* An entry is a JSON object: has holds the keys it has, and the fields of
\* the keys it lacks are blank.  A token of 'arguments' is a str or not.
KEYS == {"directory", "file", "arguments", "command"}

Str(chars) == [str |-> TRUE, v |-> chars]

NonStr(chars) == [str |-> FALSE, v |-> chars]

\* entry.get(key, '') and entry.get('arguments', [])
Get(e, key) ==
    IF key \notin e.has THEN <<>>
    ELSE IF key = "directory" THEN e.directory
    ELSE IF key = "file" THEN e.file
    ELSE IF key = "arguments" THEN e.arguments
    ELSE e.command

\* original_abs_file
OriginalAbsFile(e) ==
    IF IsAbs(Get(e, "file")) THEN Get(e, "file")
    ELSE Join(Get(e, "directory"), Get(e, "file"))

\* A new_directory that is always the directory of the found file.
NewDirectoryOfFile(original_abs_file, original_directory, found_abs_file_path) ==
    Dirname(Abspath(found_abs_file_path))

\* new_directory: as many levels above the found file as rel_path has parts.
NewDirectory(original_abs_file, original_directory, found_abs_file_path) ==
    LET rel_path_parts == Split(Relpath(original_abs_file, original_directory), SEP)
    IN  Abspath(JoinAll(found_abs_file_path,
                        [k \in 1..Len(rel_path_parts) |-> <<".", ".">>]))

\* The entry with 'directory' and 'file' assigned from the found file.
Rebased(e, found_abs_file_path) ==
    LET new_directory == NewDirectory(OriginalAbsFile(e), Get(e, "directory"),
                                      found_abs_file_path)
    IN  [e EXCEPT !.has = @ \cup {"directory", "file"},
                  !.directory = new_directory,
                  !.file = Relpath(found_abs_file_path, new_directory)]

\* The branch of the argument loop a token takes: "keep" appends it as it is,
\* "output" resolves the token itself, "source" resolves it joined to the
\* original directory.
ArgumentKind(arg) ==
    IF ~arg.str THEN "keep"
    ELSE IF Contains(arg.v, OUTPUT_SLASH) THEN "output"
    ELSE IF (\E suf \in SOURCE_SUFFIXES : EndsWith(arg.v, suf)) /\ ~IsAbs(arg.v)
    THEN "source"
    ELSE "keep"

\* The path handed to find_real_path for a token.
ArgumentPath(arg, original_directory) ==
    IF ArgumentKind(arg) = "source" THEN Join(original_directory, arg.v) ELSE arg.v

\* The token appended once find_real_path has returned found.
ArgumentResult(arg, found, new_directory) ==
    IF ArgumentKind(arg) = "output"
    THEN (IF found # None THEN Str(found) ELSE arg)
    ELSE IF Truthy(found)
    THEN (IF Truthy(new_directory) /\ StartsWith(found, new_directory \o <<SEP>>)
          THEN Str(Relpath(found, new_directory))
          ELSE Str(found))
    ELSE arg

\* The token an uninterrupted pass of the argument loop appends for arg.
ProcessArgument(arg, original_directory, new_directory) ==
    IF ArgumentKind(arg) = "keep" THEN arg
    ELSE ArgumentResult(arg, Resolve(ArgumentPath(arg, original_directory)),
                        new_directory)

\* What an uninterrupted process_entry returns for an entry.
ProcessEntry(e) ==
    IF Get(e, "directory") = EMPTY \/ Get(e, "file") = EMPTY THEN e
    ELSE LET found == Resolve(OriginalAbsFile(e))
             rebased == Rebased(e, found)
             args == Get(e, "arguments")
         IN  IF found = None THEN e
             ELSE [rebased EXCEPT
                     !.has = @ \cup {"arguments"},
                     !.arguments =
                         [i \in DOMAIN args |->
                             ProcessArgument(args[i], Get(e, "directory"),
                                             rebased.directory)]]

\* --------------------------------------------------------------- inputs

\* The largest number of entries of an input database, and of files in the
\* source trees.
MaxEntries == 2

MaxFiles == 2

\* Two source roots, /r1 and /r2.
Root1 == <<"/", "r", "1">>

Root2 == <<"/", "r", "2">>

\* The stale build directory /output/build/d and the source name u.c.
StaleDir == <<SEP>> \o OUTPUT_BUILD \o <<"d">>

SourceName == <<"u", ".", "c">>

\* Files a source tree may hold.  Against /output/build/d/u.c: /r1/xd/u.c ends
\* with d/u.c and scores 1 + 1/2; /r2/d/u.c scores 2; /r1/dx/u.c does not end
\* with d/u.c and scores 1 + 1/2.
FileUniverse ==
    { Root1 \o <<"/", "x", "d", "/">> \o SourceName,
      Root2 \o <<"/", "d", "/">> \o SourceName,
      Root1 \o <<"/", "d", "x", "/">> \o SourceName }

\* Tokens of 'arguments': a flag, a number, a stale absolute path, a relative
\* source reference, a define whose value holds 'output/build/', and a bare
\* 'output/'.
TokFlag == Str(<<"-", "O", "2">>)

TokNumber == NonStr(<<"7">>)

TokStale == Str(StaleDir \o <<SEP>> \o SourceName)

TokSource == Str(<<".", "/">> \o SourceName)

TokDefine == Str(<<"-", "D", "X", "=">> \o OUTPUT_BUILD \o <<"d", "/">> \o SourceName)

TokOutput == Str(OUTPUT_SLASH)

Entry(has, directory, file, arguments) ==
    [has |-> has, directory |-> directory, file |-> file,
     arguments |-> arguments, command |-> IF "command" \in has THEN <<"c", "c">> ELSE <<>>]

\* Entries of an input database: two stale ones (the second names its file
\* d/u.c from the directory /output/build), one without 'directory', one
\* with an empty 'file', and one that is already in a source root and has
\* no 'arguments'.
EntryUniverse ==
    { Entry(KEYS, StaleDir, SourceName, <<TokFlag, TokStale, TokSource>>),
      Entry(KEYS \ {"command"}, Dirname(StaleDir), <<"d", "/">> \o SourceName,
            <<TokNumber, TokDefine, TokOutput>>),
      Entry({"file", "arguments"}, <<>>, SourceName, <<TokStale>>),
      Entry(KEYS, StaleDir, <<>>, <<TokStale>>),
      Entry({"directory", "file"}, Root2 \o <<"/", "d">>, SourceName, <<>>) }

\* The lists of at most n distinct elements of S.
RECURSIVE ListsOf(_, _)
ListsOf(S, n) ==
    IF n = 0 THEN {<<>>}
    ELSE LET shorter == ListsOf(S, n - 1)
         IN  shorter \cup {Append(l, x) : l \in shorter, x \in S}

Distinct(l) == \A i, j \in DOMAIN l : i # j => l[i] # l[j]

\* ----------------------------------------------------------------- main

NoFrame ==
    [original_directory |-> <<>>, new_directory |-> None,
     args |-> <<>>, new_args |-> <<>>, argi |-> 0]

NoCall == [path |-> None, cont |-> "", ret |-> None]

NoEntry == Entry({}, <<>>, <<>>, <<>>)

Event(ev, path, how, val) ==
    [ev |-> ev, idx |-> idx, path |-> path, how |-> how, val |-> val,
     matches |-> <<>>]

\* The log event of one provider search: the strategy, the candidate lines it
\* ranked and the best match it got.
Searched(path, how, matches, val) ==
    [Event("fd", path, how, val) EXCEPT !.matches = matches]

\* The positions of main inside the try block of the loop.
InLoop ==
    {"loop", "find_real_path", "strategy1", "strategy2", "derive",
     "arguments", "argument_found", "append"}

\* main before the loop, once the arguments and the input file are read.
Start ==
    /\ total_entries = Len(data)
    /\ idx = 1
    /\ entry = NoEntry
    /\ frame = NoFrame
    /\ call = NoCall
    /\ PATH_CACHE = << >>
    /\ processed_data = <<>>
    /\ out_file = <<>>
    /\ status = ""
    /\ pc = "loop"
    /\ interrupted = FALSE
    /\ pass = "first"
    /\ log = <<>>
    /\ GbmOff /\ UvOff /\ BuildOff

Init ==
    /\ source_roots = <<Root1, Root2>>
    /\ fs \in {l \in ListsOf(FileUniverse, MaxFiles) : Distinct(l)}
    /\ fd_missing = FALSE
    /\ fd_fails = {}
    /\ data \in ListsOf(EntryUniverse, MaxEntries)
    /\ Start

\* A cache that does not remember a path that was not found.
CacheOnlyFound(path, val) ==
    IF val = None THEN UNCHANGED PATH_CACHE
    ELSE PATH_CACHE' = [q \in DOMAIN PATH_CACHE \cup {path} |->
                           IF q = path THEN val ELSE PATH_CACHE[q]]

Cache(path, val) ==
    PATH_CACHE' = [q \in DOMAIN PATH_CACHE \cup {path} |->
                      IF q = path THEN val ELSE PATH_CACHE[q]]

\* A loop that skips an entry without 'directory' or 'file' instead of
\* appending it.
LoopEntryDropsBlank ==
    /\ pc = "loop"
    /\ idx <= Len(data)
    /\ IF Get(data[idx], "directory") = EMPTY \/ Get(data[idx], "file") = EMPTY
       THEN /\ idx' = idx + 1
            /\ UNCHANGED <<entry, frame, call, pc>>
       ELSE /\ entry' = data[idx]
            /\ frame' = [NoFrame EXCEPT
                           !.original_directory = Get(data[idx], "directory")]
            /\ call' = [path |-> OriginalAbsFile(data[idx]), cont |-> "file",
                        ret |-> None]
            /\ pc' = "find_real_path"
            /\ UNCHANGED idx
    /\ UNCHANGED <<gbm_vars, uv_vars, build_vars, fd_missing, fd_fails,
                   source_roots, fs, data, total_entries, PATH_CACHE,
                   processed_data, out_file, status, interrupted, pass, log>>

\* main, the head of the loop, and process_entry to its call of
\* find_real_path: an entry without 'directory' or 'file' is returned at once.
LoopEntry ==
    /\ pc = "loop"
    /\ idx <= Len(data)
    /\ entry' = data[idx]
    /\ IF Get(data[idx], "directory") = EMPTY \/ Get(data[idx], "file") = EMPTY
       THEN /\ pc' = "append"
            /\ UNCHANGED <<frame, call>>
       ELSE /\ frame' = [NoFrame EXCEPT
                           !.original_directory = Get(data[idx], "directory")]
            /\ call' = [path |-> OriginalAbsFile(data[idx]), cont |-> "file",
                        ret |-> None]
            /\ pc' = "find_real_path"
    /\ UNCHANGED <<gbm_vars, uv_vars, build_vars, fd_missing, fd_fails,
                   source_roots, fs, data, total_entries, idx, PATH_CACHE,
                   processed_data, out_file, status, interrupted, pass, log>>

\* A lookup that passes a path without 'output/' through only when the file
\* is on disk, and searches for it otherwise.
FindRealPathChecksDisk ==
    /\ pc = "find_real_path"
    /\ IF call.path \in DOMAIN PATH_CACHE
       THEN /\ call' = [call EXCEPT !.ret = PATH_CACHE[call.path]]
            /\ pc' = IF call.cont = "file" THEN "derive" ELSE "argument_found"
            /\ log' = log \o << Event("call", call.path, "", None),
                                Event("return", call.path, "cache",
                                      PATH_CACHE[call.path]) >>
            /\ UNCHANGED PATH_CACHE
       ELSE IF ~Contains(call.path, OUTPUT_SLASH)
               /\ \E k \in DOMAIN fs : fs[k] = call.path
       THEN /\ call' = [call EXCEPT !.ret = call.path]
            /\ pc' = IF call.cont = "file" THEN "derive" ELSE "argument_found"
            /\ log' = log \o << Event("call", call.path, "", None),
                                Event("return", call.path, "pass", call.path) >>
            /\ Cache(call.path, call.path)
       ELSE /\ pc' = "strategy1"
            /\ log' = Append(log, Event("call", call.path, "", None))
            /\ UNCHANGED <<call, PATH_CACHE>>
    /\ UNCHANGED <<gbm_vars, uv_vars, build_vars, fd_missing, fd_fails,
                   source_roots, fs, data, total_entries, idx, entry, frame,
                   processed_data, out_file, status, interrupted, pass>>

\* find_real_path, the cache lookup and the pass-through of a path without
\* 'output/'.
FindRealPath ==
    /\ pc = "find_real_path"
    /\ IF call.path \in DOMAIN PATH_CACHE
       THEN /\ call' = [call EXCEPT !.ret = PATH_CACHE[call.path]]
            /\ pc' = IF call.cont = "file" THEN "derive" ELSE "argument_found"
            /\ log' = log \o << Event("call", call.path, "", None),
                                Event("return", call.path, "cache",
                                      PATH_CACHE[call.path]) >>
            /\ UNCHANGED PATH_CACHE
       ELSE IF ~Contains(call.path, OUTPUT_SLASH)
       THEN /\ call' = [call EXCEPT !.ret = call.path]
            /\ pc' = IF call.cont = "file" THEN "derive" ELSE "argument_found"
            /\ log' = log \o << Event("call", call.path, "", None),
                                Event("return", call.path, "pass", call.path) >>
            /\ Cache(call.path, call.path)
       ELSE /\ pc' = "strategy1"
            /\ log' = Append(log, Event("call", call.path, "", None))
            /\ UNCHANGED <<call, PATH_CACHE>>
    /\ UNCHANGED <<gbm_vars, uv_vars, build_vars, fd_missing, fd_fails,
                   source_roots, fs, data, total_entries, idx, entry, frame,
                   processed_data, out_file, status, interrupted, pass>>

\* A strategy 1 whose match does not end the call: strategy 2 runs after it.
StrategyOneFallsThrough ==
    /\ pc = "strategy1"
    /\ IF SearchTerm(call.path) = None
       THEN UNCHANGED log
       ELSE log' = Append(log, Searched(call.path, "strategy1",
                                        Candidates1(call.path),
                                        Strategy1(call.path)))
    /\ pc' = "strategy2"
    /\ UNCHANGED <<call, PATH_CACHE>>
    /\ UNCHANGED <<gbm_vars, uv_vars, build_vars, fd_missing, fd_fails,
                   source_roots, fs, data, total_entries, idx, entry, frame,
                   processed_data, out_file, status, interrupted, pass>>

\* find_real_path, strategy 1: one search for "parent/name" when the path has
\* a parent directory; a best match is cached and returned.
StrategyOne ==
    /\ pc = "strategy1"
    /\ IF SearchTerm(call.path) = None
       THEN /\ pc' = "strategy2"
            /\ UNCHANGED <<call, PATH_CACHE, log>>
       ELSE IF Truthy(Strategy1(call.path))
       THEN /\ call' = [call EXCEPT !.ret = Strategy1(call.path)]
            /\ pc' = IF call.cont = "file" THEN "derive" ELSE "argument_found"
            /\ log' = log \o << Searched(call.path, "strategy1",
                                         Candidates1(call.path),
                                         Strategy1(call.path)),
                                Event("return", call.path, "strategy1",
                                      Strategy1(call.path)) >>
            /\ Cache(call.path, Strategy1(call.path))
       ELSE /\ pc' = "strategy2"
            /\ log' = Append(log, Searched(call.path, "strategy1",
                                       Candidates1(call.path), None))
            /\ UNCHANGED <<call, PATH_CACHE>>
    /\ UNCHANGED <<gbm_vars, uv_vars, build_vars, fd_missing, fd_fails,
                   source_roots, fs, data, total_entries, idx, entry, frame,
                   processed_data, out_file, status, interrupted, pass>>

\* find_real_path, strategy 2: one search for the exact basename when there is
\* one; a best match is cached and returned, and None is cached otherwise.
StrategyTwo ==
    /\ pc = "strategy2"
    /\ LET searched == Basename(call.path) # EMPTY
           best == Strategy2(call.path)
           val == IF Truthy(best) THEN best ELSE None
       IN  /\ call' = [call EXCEPT !.ret = val]
           /\ log' = log
                     \o (IF searched
                         THEN <<Searched(call.path, "strategy2",
                                      Candidates2(call.path), best)>>
                         ELSE <<>>)
                     \o <<Event("return", call.path,
                                IF Truthy(best) THEN "strategy2" ELSE "none", val)>>
           /\ Cache(call.path, val)
    /\ pc' = IF call.cont = "file" THEN "derive" ELSE "argument_found"
    /\ UNCHANGED <<gbm_vars, uv_vars, build_vars, fd_missing, fd_fails,
                   source_roots, fs, data, total_entries, idx, entry, frame,
                   processed_data, out_file, status, interrupted, pass>>

\* A process_entry that runs the argument loop also when the source file was
\* not found.
DeriveThenArguments ==
    /\ pc = "derive"
    /\ IF call.ret = None
       THEN /\ frame' = [frame EXCEPT
                           !.new_directory = frame.original_directory,
                           !.args = Get(entry, "arguments"),
                           !.new_args = <<>>,
                           !.argi = 1]
            /\ UNCHANGED entry
       ELSE /\ entry' = Rebased(entry, call.ret)
            /\ frame' = [frame EXCEPT
                           !.new_directory = Rebased(entry, call.ret).directory,
                           !.args = Get(entry, "arguments"),
                           !.new_args = <<>>,
                           !.argi = 1]
    /\ pc' = "arguments"
    /\ call' = NoCall
    /\ UNCHANGED <<gbm_vars, uv_vars, build_vars, fd_missing, fd_fails,
                   source_roots, fs, data, total_entries, idx, PATH_CACHE,
                   processed_data, out_file, status, interrupted, pass, log>>

\* process_entry once the source file's path is back: the entry is left
\* alone when it is None; otherwise 'directory' and 'file' are assigned and
\* the argument loop starts.
Derive ==
    /\ pc = "derive"
    /\ IF call.ret = None
       THEN /\ pc' = "append"
            /\ UNCHANGED <<entry, frame>>
       ELSE /\ entry' = Rebased(entry, call.ret)
            /\ frame' = [frame EXCEPT
                           !.new_directory = Rebased(entry, call.ret).directory,
                           !.args = Get(entry, "arguments"),
                           !.new_args = <<>>,
                           !.argi = 1]
            /\ pc' = "arguments"
    /\ call' = NoCall
    /\ UNCHANGED <<gbm_vars, uv_vars, build_vars, fd_missing, fd_fails,
                   source_roots, fs, data, total_entries, idx, PATH_CACHE,
                   processed_data, out_file, status, interrupted, pass, log>>

\* One turn of the argument loop: the token is appended as it is, or
\* find_real_path is called for it.
NextArgument ==
    /\ pc = "arguments"
    /\ frame.argi <= Len(frame.args)
    /\ LET arg == frame.args[frame.argi]
       IN  IF ArgumentKind(arg) = "keep"
           THEN /\ frame' = [frame EXCEPT !.new_args = Append(@, arg),
                                          !.argi = @ + 1]
                /\ UNCHANGED <<call, pc>>
           ELSE /\ call' = [path |-> ArgumentPath(arg, frame.original_directory),
                            cont |-> ArgumentKind(arg), ret |-> None]
                /\ pc' = "find_real_path"
                /\ UNCHANGED frame
    /\ UNCHANGED <<gbm_vars, uv_vars, build_vars, fd_missing, fd_fails,
                   source_roots, fs, data, total_entries, idx, entry, PATH_CACHE,
                   processed_data, out_file, status, interrupted, pass, log>>

\* The argument loop once find_real_path has returned for the token.
ArgumentFound ==
    /\ pc = "argument_found"
    /\ frame' = [frame EXCEPT
                   !.new_args = Append(@, ArgumentResult(frame.args[frame.argi],
                                                         call.ret,
                                                         frame.new_directory)),
                   !.argi = @ + 1]
    /\ call' = NoCall
    /\ pc' = "arguments"
    /\ UNCHANGED <<gbm_vars, uv_vars, build_vars, fd_missing, fd_fails,
                   source_roots, fs, data, total_entries, idx, entry, PATH_CACHE,
                   processed_data, out_file, status, interrupted, pass, log>>

\* An end of the argument loop that returns a new entry holding only the
\* three keys process_entry writes.
FinishArgumentsNewEntry ==
    /\ pc = "arguments"
    /\ frame.argi > Len(frame.args)
    /\ entry' = Entry({"directory", "file", "arguments"}, entry.directory,
                      entry.file, frame.new_args)
    /\ pc' = "append"
    /\ UNCHANGED <<gbm_vars, uv_vars, build_vars, fd_missing, fd_fails,
                   source_roots, fs, data, total_entries, idx, frame, call,
                   PATH_CACHE, processed_data, out_file, status, interrupted, pass, log>>

\* The end of the argument loop: 'arguments' is assigned and the entry returned.
FinishArguments ==
    /\ pc = "arguments"
    /\ frame.argi > Len(frame.args)
    /\ entry' = [entry EXCEPT !.has = @ \cup {"arguments"},
                              !.arguments = frame.new_args]
    /\ pc' = "append"
    /\ UNCHANGED <<gbm_vars, uv_vars, build_vars, fd_missing, fd_fails,
                   source_roots, fs, data, total_entries, idx, frame, call,
                   PATH_CACHE, processed_data, out_file, status, interrupted, pass, log>>

\* processed_data.append(processed_entry)
AppendEntry ==
    /\ pc = "append"
    /\ processed_data' = Append(processed_data, entry)
    /\ idx' = idx + 1
    /\ entry' = NoEntry
    /\ frame' = NoFrame
    /\ call' = NoCall
    /\ pc' = "loop"
    /\ UNCHANGED <<gbm_vars, uv_vars, build_vars, fd_missing, fd_fails,
                   source_roots, fs, data, total_entries, PATH_CACHE, out_file,
                   status, interrupted, pass, log>>

\* The loop has gone through data.
LoopExit ==
    /\ pc = "loop"
    /\ idx > Len(data)
    /\ pc' = "save"
    /\ UNCHANGED <<gbm_vars, uv_vars, build_vars, fd_missing, fd_fails,
                   source_roots, fs, data, total_entries, idx, entry, frame,
                   call, PATH_CACHE, processed_data, out_file, status, interrupted, pass, log>>

\* An interrupt handler that flushes the entry in progress with the rest.
InterruptFlushesEntry ==
    /\ pc \in InLoop
    /\ pc' = "save"
    /\ processed_data' = IF entry # NoEntry THEN Append(processed_data, entry)
                         ELSE processed_data
    /\ entry' = NoEntry
    /\ frame' = NoFrame
    /\ call' = NoCall
    /\ interrupted' = TRUE
    /\ UNCHANGED <<gbm_vars, uv_vars, build_vars, fd_missing, fd_fails,
                   source_roots, fs, data, total_entries, idx, PATH_CACHE,
                   out_file, status, pass, log>>

\* KeyboardInterrupt anywhere in the try block: the entry in progress and the
\* call in progress are abandoned.
KeyboardInterrupt ==
    /\ pc \in InLoop
    /\ pc' = "save"
    /\ entry' = NoEntry
    /\ frame' = NoFrame
    /\ call' = NoCall
    /\ interrupted' = TRUE
    /\ UNCHANGED <<gbm_vars, uv_vars, build_vars, fd_missing, fd_fails,
                   source_roots, fs, data, total_entries, idx, PATH_CACHE,
                   processed_data, out_file, status, pass, log>>

\* main after the loop: processed_data is written and the closing message
\* tells a partial result from a complete one.
Save ==
    /\ pc = "save"
    /\ out_file' = processed_data
    /\ status' = IF Len(processed_data) < total_entries THEN "partial" ELSE "success"
    /\ pc' = "done"
    /\ UNCHANGED <<gbm_vars, uv_vars, build_vars, fd_missing, fd_fails,
                   source_roots, fs, data, total_entries, idx, entry, frame,
                   call, PATH_CACHE, processed_data, interrupted, pass, log>>

\* The script is run again on the file a complete first run wrote, with the
\* same source roots and files: a new process, so an empty cache.
SecondRun ==
    /\ pc = "done"
    /\ pass = "first"
    /\ status = "success"
    /\ data' = out_file
    /\ total_entries' = Len(out_file)
    /\ idx' = 1
    /\ PATH_CACHE' = << >>
    /\ processed_data' = <<>>
    /\ out_file' = <<>>
    /\ status' = ""
    /\ pc' = "loop"
    /\ pass' = "second"
    /\ log' = <<>>
    /\ UNCHANGED <<gbm_vars, uv_vars, build_vars, fd_missing, fd_fails,
                   source_roots, fs, entry, frame, call, interrupted>>

Next ==
    \/ LoopEntry
    \/ FindRealPath
    \/ StrategyOne
    \/ StrategyTwo
    \/ Derive
    \/ NextArgument
    \/ ArgumentFound
    \/ FinishArguments
    \/ AppendEntry
    \/ LoopExit
    \/ KeyboardInterrupt
    \/ Save
    \/ SecondRun

Spec == Init /\ [][Next]_vars

\* ------------------------------------------- runs with a failing provider

\* A second source name, v.c, and the stale path /output/build/d/v.c.
OtherName == <<"v", ".", "c">>

TokOther == Str(StaleDir \o <<SEP>> \o OtherName)

\* The files /r2/d/u.c and /r2/d/v.c, which a working provider finds for the
\* stale paths with a score of 2.
FdFailsFiles ==
    { Root2 \o <<"/", "d", "/">> \o SourceName,
      Root2 \o <<"/", "d", "/">> \o OtherName }

\* Two stale entries: u.c with a token for v.c, and v.c with a token for u.c.
FdFailsEntries ==
    { Entry(KEYS, StaleDir, SourceName, <<TokFlag, TokStale, TokOther>>),
      Entry(KEYS, StaleDir, OtherName, <<TokStale>>) }

\* The search terms of the two strategies for the two stale paths.
FdTerms ==
    { SearchTerm(TokStale.v), RegexTerm(SourceName),
      SearchTerm(TokOther.v), RegexTerm(OtherName) }

\* main before the loop where the provider fails: fd is not installed, or it
\* exits non-zero on some of the searches.
InitFdFails ==
    /\ source_roots = <<Root1, Root2>>
    /\ fs \in {l \in ListsOf(FdFailsFiles, MaxFiles) : Distinct(l)}
    /\ \/ fd_missing = TRUE /\ fd_fails = {}
       \/ fd_missing = FALSE /\ fd_fails \in SUBSET FdTerms \ {{}}
    /\ data \in ListsOf(FdFailsEntries, MaxEntries)
    /\ Start

SpecFdFails == InitFdFails /\ [][Next]_vars

\* ----------------------------------------- _get_best_match on its own

\* The largest number of candidates in a list.
MaxMatches == 2

UartName == <<"u", "a", "r", "t", ".", "c">>

\* Original paths: /p/output/build/src/driver/uart.c with the suffix parts
\* [src, driver, uart.c]; /output/build/uart.c with one suffix part;
\* /output/x/driver/uart.c without 'output/build/', compared by its last four
\* parts; and /output/build/driver/ with a trailing separator.
OriginalUniverse ==
    { <<"/", "p", "/">> \o OUTPUT_BUILD
          \o <<"s", "r", "c", "/", "d", "r", "i", "v", "e", "r", "/">> \o UartName,
      <<"/">> \o OUTPUT_BUILD \o UartName,
      <<"/">> \o OUTPUT_SLASH
          \o <<"x", "/", "d", "r", "i", "v", "e", "r", "/">> \o UartName,
      <<"/">> \o OUTPUT_BUILD \o <<"d", "r", "i", "v", "e", "r", "/">> }

\* Lines the provider prints: /r1/src/driver/uart.c, /r2/y/driver/uart.c and
\* /r1/x/driver/uart.c (equal scores against the first original),
\* /r1/src/drv/uart.c, /r1/src/driver/UART.C, and the relative line uart.c.
CandidateUniverse ==
    { Root1 \o <<"/", "s", "r", "c", "/", "d", "r", "i", "v", "e", "r", "/">> \o UartName,
      Root2 \o <<"/", "y", "/", "d", "r", "i", "v", "e", "r", "/">> \o UartName,
      Root1 \o <<"/", "x", "/", "d", "r", "i", "v", "e", "r", "/">> \o UartName,
      Root1 \o <<"/", "s", "r", "c", "/", "d", "r", "v", "/">> \o UartName,
      Root1 \o <<"/", "s", "r", "c", "/", "d", "r", "i", "v", "e", "r", "/",
                 "U", "A", "R", "T", ".", "C">>,
      UartName }

InitScore ==
    /\ gbm_matches \in ListsOf(CandidateUniverse, MaxMatches)
    /\ gbm_original \in OriginalUniverse
    /\ gbm_scores = <<>>
    /\ gbm_best = [score |-> Frac(-1, 1), path |-> None]
    /\ gbm_result = None
    /\ gbm_pc = "call"
    /\ FixOff /\ UvOff /\ BuildOff

\* _get_best_match(matches, original_path): the score of every candidate, the
\* best of them, and the value returned.
GetBestMatchCall ==
    /\ gbm_pc = "call"
    /\ gbm_scores' = [m \in DOMAIN gbm_matches |->
                         Score(gbm_matches[m], gbm_original)]
    /\ gbm_best' = BestCandidate(gbm_matches, gbm_original)
    /\ gbm_result' = GetBestMatch(gbm_matches, gbm_original)
    /\ gbm_pc' = "returned"
    /\ UNCHANGED <<gbm_matches, gbm_original>>
    /\ UNCHANGED <<fix_vars, uv_vars, build_vars>>

NextScore == GetBestMatchCall

SpecScore == InitScore /\ [][NextScore]_vars

\* -------------------------- uvprojx2compileDatabase.py, parse_uvprojx

\* The largest number of Target elements in a project file.
MaxTargets == 2

\* A Target element: the text of its TargetName child, whether it has a child
\* Name and that child's text, whether it has TargetOption/TargetArmAds, and
\* the File elements of its groups as (FilePath, FileType) in document order.
\* The compiler flags of the files are left out.
Target(TargetName, has_Name, Name, has_TargetArmAds, Files) ==
    [TargetName |-> TargetName, has_Name |-> has_Name, Name |-> Name,
     has_TargetArmAds |-> has_TargetArmAds, Files |-> Files]

File(FilePath, FileType) == [FilePath |-> FilePath, FileType |-> FileType]

\* Targets as uVision writes them (no child Name), one with a child Name, and
\* one without TargetArmAds.
TargetUniverse ==
    { Target("A", FALSE, "", TRUE, <<File("a.c", "1"), File("a.txt", "4")>>),
      Target("B", FALSE, "", TRUE, <<File("", "1"), File("b.s", "2")>>),
      Target("C", TRUE, "B", TRUE, <<File("c.cpp", "5")>>),
      Target("D", FALSE, "", FALSE, <<File("d.c", "1")>>) }

\* The argument target_name: None, or a str.
NoTargetName == [none |-> TRUE, v |-> ""]

TargetName(v) == [none |-> FALSE, v |-> v]

TargetNameUniverse ==
    {NoTargetName, TargetName(""), TargetName("A"), TargetName("B")}

\* root.find(f".//Target[Name='{target_name}']"): the first Target that has a
\* child Name with that text; 0 for None.
FindTargetByName(root, target_name) ==
    LET found == {k \in DOMAIN root :
                     root[k].has_Name /\ root[k].Name = target_name.v}
    IN  IF found = {} THEN 0 ELSE CHOOSE k \in found : \A j \in found : k <= j

\* root.find('.//Target'): the first Target; 0 for None.
FindFirstTarget(root) == IF root = <<>> THEN 0 ELSE 1

\* The paths appended to files_data: the files with a FilePath and a FileType
\* of 1, 2 or 5.
RECURSIVE FilesData(_)
FilesData(files) ==
    IF files = <<>> THEN <<>>
    ELSE (IF Head(files).FilePath # "" /\ Head(files).FileType \in {"1", "2", "5"}
          THEN <<Head(files).FilePath>> ELSE <<>>)
         \o FilesData(Tail(files))

InitParse ==
    /\ uv_root \in ListsOf(TargetUniverse, MaxTargets)
    /\ uv_target_name \in TargetNameUniverse
    /\ uv_target = 0
    /\ uv_files = <<>>
    /\ uv_pc = "find"
    /\ FixOff /\ GbmOff /\ BuildOff

\* parse_uvprojx: the search for the named target when a name is given.
FindNamedTarget ==
    /\ uv_pc = "find"
    /\ uv_target' = IF ~uv_target_name.none /\ uv_target_name.v # ""
                    THEN FindTargetByName(uv_root, uv_target_name)
                    ELSE 0
    /\ uv_pc' = "first"
    /\ UNCHANGED <<uv_root, uv_target_name, uv_files>>
    /\ UNCHANGED <<fix_vars, gbm_vars, build_vars>>

\* parse_uvprojx: the first target when target is None; ValueError when the
\* project has no target.
FallBackToFirstTarget ==
    /\ uv_pc = "first"
    /\ LET target == IF uv_target = 0 THEN FindFirstTarget(uv_root) ELSE uv_target
       IN  /\ uv_target' = target
           /\ uv_pc' = IF target = 0 THEN "ValueError" ELSE "options"
    /\ UNCHANGED <<uv_root, uv_target_name, uv_files>>
    /\ UNCHANGED <<fix_vars, gbm_vars, build_vars>>

\* parse_uvprojx: ValueError when the target has no TargetArmAds; otherwise
\* the files of the target's groups are collected and returned.
ExtractFiles ==
    /\ uv_pc = "options"
    /\ IF uv_root[uv_target].has_TargetArmAds
       THEN /\ uv_files' = FilesData(uv_root[uv_target].Files)
            /\ uv_pc' = "return"
       ELSE /\ uv_pc' = "ValueError"
            /\ UNCHANGED uv_files
    /\ UNCHANGED <<uv_root, uv_target_name, uv_target>>
    /\ UNCHANGED <<fix_vars, gbm_vars, build_vars>>

NextParse ==
    \/ FindNamedTarget
    \/ FallBackToFirstTarget
    \/ ExtractFiles

SpecParse == InitParse /\ [][NextParse]_vars

\* ------------------------------------------------------------- build.py

\* The largest number of lines the Keil command writes to the log.
MaxLines == 2

\* Message_finished and Message_err, the two closing banners of readfile.
Message_finished == " Build finished "

Message_err == " Error occurred "

\* Lines of a build log: one that reports progress, one that reports an error,
\* and the summary of a build without errors.
LineUniverse ==
    { <<"c", "o", "m", "p", "i", "l", "i", "n", "g">>,
      <<"a", ".", "c", ":", " ", "e", "r", "r", "o", "r", ":", " ", "#", "2", "0">>,
      <<"e", "r", "r", "o", "r", ":", " ", "0", " ", "e", "r", "r", "o", "r", "s">> }

\* The test of readfile for a line that reports an error.
IsErrorLine(line) ==
    \/ /\ Contains(line, <<"e", "r", "r", "o", "r", ":">>)
       /\ ~Contains(line, <<"0", " ", "e", "r", "r", "o", "r", "s">>)
    \/ Contains(line, <<"f", "a", "i", "l", "e", "d">>)
    \/ Contains(line, <<"E", "r", "r", "o", "r", ":">>)

\* The script at thread.start(): runing is True and the Keil command has
\* its lines still to write.  A line is written and read whole.
InitBuild ==
    /\ runing = TRUE
    /\ keil \in ListsOf(LineUniverse, MaxLines)
    /\ written = <<>>
    /\ logfile = <<>>
    /\ line_no = 0
    /\ printed = <<>>
    /\ err = FALSE
    /\ banner = ""
    /\ main_pc = "start"
    /\ reader_pc = "new"
    /\ FixOff /\ GbmOff /\ UvOff

\* __main__: thread.start(), after which the main thread calls os.system.
ThreadStart ==
    /\ main_pc = "start"
    /\ main_pc' = "system"
    /\ reader_pc' = "open"
    /\ UNCHANGED <<runing, keil, written, logfile, line_no, printed, err, banner>>
    /\ UNCHANGED <<fix_vars, gbm_vars, uv_vars>>

\* os.system(cmd) in progress: the Keil process appends its next line to the log.
KeilWritesLine ==
    /\ main_pc = "system"
    /\ keil # <<>>
    /\ logfile' = Append(logfile, Head(keil))
    /\ written' = Append(written, Head(keil))
    /\ keil' = Tail(keil)
    /\ UNCHANGED <<runing, line_no, printed, err, banner, main_pc, reader_pc>>
    /\ UNCHANGED <<fix_vars, gbm_vars, uv_vars>>

\* os.system(cmd) returns when the Keil process has ended.
SystemReturns ==
    /\ main_pc = "system"
    /\ keil = <<>>
    /\ main_pc' = "stop"
    /\ UNCHANGED <<runing, keil, written, logfile, line_no, printed, err, banner,
                   reader_pc>>
    /\ UNCHANGED <<fix_vars, gbm_vars, uv_vars>>

\* runing = False
StopReader ==
    /\ main_pc = "stop"
    /\ runing' = FALSE
    /\ main_pc' = "join"
    /\ UNCHANGED <<keil, written, logfile, line_no, printed, err, banner, reader_pc>>
    /\ UNCHANGED <<fix_vars, gbm_vars, uv_vars>>

\* thread.join() returns once readfile has returned; sys.exit(code).
ThreadJoin ==
    /\ main_pc = "join"
    /\ reader_pc = "done"
    /\ main_pc' = "exit"
    /\ UNCHANGED <<runing, keil, written, logfile, line_no, printed, err, banner,
                   reader_pc>>
    /\ UNCHANGED <<fix_vars, gbm_vars, uv_vars>>

\* readfile: open(logfile, 'w') empties the log, whatever the Keil process
\* has written to it by then, and open(logfile, 'r') starts at its first line.
OpenLog ==
    /\ reader_pc = "open"
    /\ logfile' = <<>>
    /\ line_no' = 0
    /\ reader_pc' = "while"
    /\ UNCHANGED <<runing, keil, written, printed, err, banner, main_pc>>
    /\ UNCHANGED <<fix_vars, gbm_vars, uv_vars>>

\* readfile: the test of "while runing".
TestRuning ==
    /\ reader_pc = "while"
    /\ reader_pc' = IF runing THEN "readline" ELSE "banner"
    /\ UNCHANGED <<runing, keil, written, logfile, line_no, printed, err, banner,
                   main_pc>>
    /\ UNCHANGED <<fix_vars, gbm_vars, uv_vars>>

\* readfile: f.readline and the body of the loop: a line is printed, and err
\* is set when it reports an error; '' at the end of the log.
ReadLine ==
    /\ reader_pc = "readline"
    /\ IF line_no < Len(logfile)
       THEN /\ line_no' = line_no + 1
            /\ printed' = Append(printed, logfile[line_no + 1])
            /\ err' = (err \/ IsErrorLine(logfile[line_no + 1]))
       ELSE UNCHANGED <<line_no, printed, err>>
    /\ reader_pc' = "while"
    /\ UNCHANGED <<runing, keil, written, logfile, banner, main_pc>>
    /\ UNCHANGED <<fix_vars, gbm_vars, uv_vars>>

\* readfile after the loop: the closing banner.
PrintBanner ==
    /\ reader_pc = "banner"
    /\ banner' = IF ~err THEN Message_finished ELSE Message_err
    /\ reader_pc' = "done"
    /\ UNCHANGED <<runing, keil, written, logfile, line_no, printed, err, main_pc>>
    /\ UNCHANGED <<fix_vars, gbm_vars, uv_vars>>

\* The steps of the main thread with the Keil process it waits for, and the
\* steps of the thread that runs readfile.
MainThread ==
    \/ ThreadStart
    \/ KeilWritesLine
    \/ SystemReturns
    \/ StopReader
    \/ ThreadJoin

ReaderThread ==
    \/ OpenLog
    \/ TestRuning
    \/ ReadLine
    \/ PrintBanner

NextBuild == MainThread \/ ReaderThread

\* Each thread is scheduled again and again, and the Keil process runs on
\* until it has written its lines.
SpecBuild ==
    InitBuild /\ [][NextBuild]_vars /\ WF_vars(MainThread) /\ WF_vars(ReaderThread)

\* ------------------------------------------------------------ properties

\* The positions of the log that hold an event of one kind.
Events(ev) == {k \in DOMAIN log : log[k].ev = ev}

\* An entry whose 'directory' or 'file' is empty or missing.
Blank(e) ==
    \/ "directory" \notin e.has \/ e.directory = <<>>
    \/ "file" \notin e.has \/ e.file = <<>>

\* The return of the first find_real_path call made for entry i, the call for
\* its source file; 0 when none has returned.
FileReturn(i) ==
    LET returns == {k \in Events("return") : log[k].idx = i}
    IN  IF returns = {} THEN 0
        ELSE CHOOSE k \in returns : \A j \in returns : k <= j

\* C1: an uninterrupted run writes as many entries as it read, the i-th
\* written entry is what process_entry makes of the i-th input entry, and an
\* entry whose 'directory' or 'file' is empty or missing is written unchanged
\* without a call of find_real_path.
C1_CountAndOrderPreserved ==
    (pc = "done" /\ ~interrupted) =>
        /\ Len(out_file) = Len(data)
        /\ \A i \in DOMAIN data :
              /\ out_file[i] = ProcessEntry(data[i])
              /\ Blank(data[i]) =>
                    /\ out_file[i] = data[i]
                    /\ \A k \in DOMAIN log : log[k].idx # i

C1_Witness ==
    /\ pc = "done" /\ ~interrupted /\ Len(data) = 2
    /\ Blank(data[2]) /\ out_file[2] = data[2]
    /\ ~Blank(data[1]) /\ out_file[1] # data[1]
    /\ \E t \in DOMAIN data[2].arguments :
          Contains(data[2].arguments[t].v, OUTPUT_SLASH)

\* C2: after a KeyboardInterrupt in the loop the written list holds the
\* rewritten forms of the entries before the one in progress, in input order,
\* the entry in progress is not in it, and the run reports partial results
\* whenever it wrote fewer entries than it read.
C2_InterruptKeepsPrefix ==
    (pc = "done" /\ interrupted) =>
        /\ Len(out_file) <= Len(data)
        /\ Len(out_file) = idx - 1
        /\ \A i \in DOMAIN out_file : out_file[i] = ProcessEntry(data[i])
        /\ Len(out_file) < total_entries => status = "partial"

C2_Witness ==
    /\ pc = "done" /\ interrupted /\ status = "partial"
    /\ Len(data) = 2 /\ Len(out_file) = 1
    /\ out_file[1] # data[1]
    /\ \E k \in Events("fd") : log[k].idx = 2

\* C3: when find_real_path returns None for an entry's source file, the entry
\* is emitted as it came in and find_real_path is called for none of its
\* argument tokens.
C3_UnresolvedEntryUntouched ==
    \A i \in DOMAIN processed_data :
        (FileReturn(i) # 0 /\ log[FileReturn(i)].val = None) =>
            /\ processed_data[i] = data[i]
            /\ Cardinality({k \in Events("call") : log[k].idx = i}) = 1

C3_Witness ==
    \E i \in DOMAIN processed_data :
        /\ FileReturn(i) # 0 /\ log[FileReturn(i)].val = None
        /\ \E t \in DOMAIN data[i].arguments : ArgumentKind(data[i].arguments[t]) # "keep"

\* C4: once find_real_path has returned for a path, the provider is never
\* invoked for that path again in the run, every later call for it returns
\* the cached value of the first call, and the cache holds that value.
C4_SearchedOncePerPath ==
    /\ \A i \in Events("return") :
          /\ log[i].path \in DOMAIN PATH_CACHE
          /\ PATH_CACHE[log[i].path] = log[i].val
    /\ \A i \in Events("return") : \A j \in DOMAIN log :
          (i < j /\ log[j].path = log[i].path) =>
              /\ log[j].ev # "fd"
              /\ log[j].ev = "return" =>
                    log[j].how = "cache" /\ log[j].val = log[i].val

C4_Witness ==
    \E i, j \in Events("return") :
        /\ i < j /\ log[j].path = log[i].path /\ log[j].idx # log[i].idx
        /\ log[i].how = "none" /\ log[j].how = "cache"
        /\ \E k \in Events("fd") : k < i /\ log[k].path = log[i].path

\* C5: for a path without 'output/', find_real_path returns the path itself,
\* the cache maps the path to itself, and the provider is not invoked for it,
\* whether or not the file is on disk.
C5_PassThrough ==
    \A i \in Events("return") :
        ~Contains(log[i].path, OUTPUT_SLASH) =>
            /\ log[i].val = log[i].path
            /\ PATH_CACHE[log[i].path] = log[i].path
            /\ \A k \in Events("fd") : log[k].path # log[i].path

C5_Witness ==
    \E i \in Events("return") :
        /\ ~Contains(log[i].path, OUTPUT_SLASH)
        /\ log[i].how = "pass"
        /\ \A k \in DOMAIN fs : fs[k] # log[i].path

\* C6: a second run of the script on the file a complete first run wrote,
\* with the same source roots and files, writes a list equal to its input.
C6_SecondRunChangesNothing ==
    (pc = "done" /\ pass = "second" /\ ~interrupted) => out_file = data

\* The candidates ranked by the search that log event k records.
CandidatesOf(k) == log[k].matches

\* The scores of the candidates of a list against a path, by position.
Scores(M, path) == [m \in DOMAIN M |-> Score(M[m], path)]

\* A score is at least n/d.
AtLeast(score, n, d) == score.num * d >= n * score.den

\* C7: a search that has candidates yields a path if and only if some
\* candidate scores at least 3/2, and the path is then a candidate no other
\* candidate outscores; a best score of exactly 3/2 is accepted.
C7_ThresholdInclusive ==
    \A k \in Events("fd") :
        LET M == CandidatesOf(k)
            score == Scores(M, log[k].path)
        IN  M # <<>> =>
              /\ log[k].val # None <=> \E m \in DOMAIN M : AtLeast(score[m], 3, 2)
              /\ log[k].val # None =>
                    \E m \in DOMAIN M :
                        /\ log[k].val = Abspath(M[m])
                        /\ \A n \in DOMAIN M : ~FracLess(score[m], score[n])

C7_Witness ==
    \E k \in Events("fd") :
        LET M == CandidatesOf(k)
            score == Scores(M, log[k].path)
        IN  /\ M # <<>>
            /\ log[k].val # None
            /\ \A m \in DOMAIN M : score[m].num * 2 <= 3 * score[m].den

\* The path has a parent directory that strategy 1 can name: its dirname,
\* trailing separators stripped first, is neither empty nor the root.
HasParent(path) ==
    LET parent == Dirname(RStrip(path, SEP))
    IN  parent # <<>> /\ parent # <<"/">>

\* The first event of the call logged at c is the search of strategy 1.
StartsWithStrategy1(c) ==
    log[c + 1].ev = "fd" /\ log[c + 1].how = "strategy1"

\* What C8 says of the searches of one call: a match of strategy 1 is returned
\* at once; strategy 2 searches only right after strategy 1 matched nothing;
\* a call in which nothing matched caches and returns None.
ShortCircuit ==
    /\ \A k \in Events("fd") :
          /\ (log[k].how = "strategy1" /\ log[k].val # None) =>
                /\ k + 1 \in DOMAIN log
                /\ log[k + 1].ev = "return"
                /\ log[k + 1].val = log[k].val
          /\ log[k].how = "strategy2" =>
                /\ k > 1
                /\ log[k - 1].ev = "fd" /\ log[k - 1].how = "strategy1"
                /\ log[k - 1].path = log[k].path
                /\ log[k - 1].val = None
                /\ k + 1 \in DOMAIN log
                /\ log[k + 1].ev = "return"
                /\ log[k + 1].val = log[k].val
    /\ \A r \in Events("return") :
          log[r].how = "none" =>
              /\ log[r].val = None
              /\ PATH_CACHE[log[r].path] = None
              /\ \A k \in Events("fd") :
                    (k < r /\ log[k].path = log[r].path) => log[k].val = None

\* C8 as claimed: every call for a path with 'output/' that is not in the
\* cache searches with strategy 1 first, and the searches short-circuit.
C8_AlwaysStrategy1First ==
    /\ \A c \in Events("call") :
          (/\ Contains(log[c].path, OUTPUT_SLASH)
           /\ c + 1 \in DOMAIN log
           /\ log[c + 1].how # "cache") => StartsWithStrategy1(c)
    /\ ShortCircuit

\* C8, amended: a call for a path with 'output/' that is not in the cache
\* searches with strategy 1 first when the path has a parent directory, and
\* the searches short-circuit; for a path without one (such as 'output/')
\* no search is issued and None is cached and returned.
C8_Strategy1FirstWhenParent ==
    /\ \A c \in Events("call") :
          (/\ Contains(log[c].path, OUTPUT_SLASH)
           /\ c + 1 \in DOMAIN log
           /\ log[c + 1].how # "cache") =>
              IF HasParent(log[c].path)
              THEN StartsWithStrategy1(c)
              ELSE /\ log[c + 1].ev = "return"
                   /\ log[c + 1].val = None
                   /\ PATH_CACHE[log[c].path] = None
    /\ ShortCircuit

C8_Witness ==
    /\ \E k \in Events("fd") : log[k].how = "strategy2" /\ log[k].val # None
    /\ \E r \in Events("return") : log[r].how = "none" /\ ~HasParent(log[r].path)

\* The source roots, by position, that hold a candidate of M scoring at
\* least 3/2; score holds the candidates' scores.
ConfidentRoots(M, score) ==
    {r \in DOMAIN source_roots :
        \E m \in DOMAIN M :
            UnderRoot(M[m], source_roots[r]) /\ AtLeast(score[m], 3, 2)}

\* C9 as claimed: when some root holds a candidate scoring at least 3/2, the
\* search returns a path under the first such root in the given order.
C9_FirstConfidentRootWins ==
    \A k \in Events("fd") :
        LET M == CandidatesOf(k)
            roots == ConfidentRoots(M, Scores(M, log[k].path))
        IN  roots # {} =>
              UnderRoot(log[k].val,
                        source_roots[CHOOSE r \in roots : \A q \in roots : r <= q])

\* C9, amended: the candidates of all source roots are ranked together: a
\* search returns a path when some root holds a candidate scoring at least
\* 3/2, and no candidate of any root outscores the returned one, so a later
\* root's higher score wins over an earlier root's score of at least 3/2.
C9_BestOfAllRootsWins ==
    \A k \in Events("fd") :
        LET M == CandidatesOf(k)
            score == Scores(M, log[k].path)
            returned == Score(log[k].val, log[k].path)
        IN  /\ ConfidentRoots(M, score) # {} => log[k].val # None
            /\ log[k].val # None =>
                  \A r \in DOMAIN source_roots : \A m \in DOMAIN M :
                      UnderRoot(M[m], source_roots[r]) =>
                          ~FracLess(returned, score[m])

C9_Witness ==
    \E k \in Events("fd") :
        LET M == CandidatesOf(k)
            roots == ConfidentRoots(M, Scores(M, log[k].path))
        IN  /\ roots = DOMAIN source_roots
            /\ Len(source_roots) = 2
            /\ UnderRoot(log[k].val, source_roots[2])
            /\ ~UnderRoot(log[k].val, source_roots[1])

\* A str token that is an option of the compiler, not a path: it starts
\* with '-' (-O2, -DX=...).
OptionToken(arg) == arg.str /\ StartsWith(arg.v, <<"-">>)

\* C10: the 'arguments' of an emitted entry have the length and order of the
\* input's, and every token that is not a str, and every str token that is an
\* option and not a path, is emitted unchanged.
C10_NonPathTokensKept ==
    \A i \in DOMAIN processed_data :
        LET a == Get(data[i], "arguments")
            b == Get(processed_data[i], "arguments")
        IN  /\ Len(b) = Len(a)
            /\ \A t \in DOMAIN a :
                  (~a[t].str \/ OptionToken(a[t])) => b[t] = a[t]

\* The search term of the provider call that log event k records.
TermOf(k) ==
    IF log[k].how = "strategy1" THEN SearchTerm(log[k].path)
    ELSE RegexTerm(Basename(log[k].path))

\* The provider failed on the call that log event k records.
Failed(k) == fd_missing \/ TermOf(k) \in fd_fails

\* The files a working provider would have printed for the call of event k.
WouldMatch(k) ==
    {f \in {fs[n] : n \in DOMAIN fs} :
        FdMatches(TermOf(k), log[k].how = "strategy2", f)}

\* The path is in the cache as not found.
NotFound(path) == path \in DOMAIN PATH_CACHE /\ PATH_CACHE[path] = None

\* C11: a search on which the provider fails ranks no candidate and yields no
\* path; after a failed strategy 1 the lookup goes on to strategy 2 (or to
\* not-found when the path has no name); an entry whose source file is not
\* found is emitted as it came in, a token that is not found is emitted as it
\* came in, and an uninterrupted run writes every entry and reports success.
C11_ProviderFailureIsNoMatch ==
    /\ \A k \in Events("fd") :
          Failed(k) =>
              /\ log[k].matches = <<>> /\ log[k].val = None
              /\ (log[k].how = "strategy1" /\ k + 1 \in DOMAIN log) =>
                    /\ log[k + 1].path = log[k].path
                    /\ log[k + 1].idx = log[k].idx
                    /\ IF Basename(log[k].path) # EMPTY
                       THEN log[k + 1].ev = "fd" /\ log[k + 1].how = "strategy2"
                       ELSE log[k + 1].ev = "return" /\ log[k + 1].how = "none"
    /\ \A k \in Events("return") :
          (log[k].how \in {"strategy1", "strategy2", "none"}
             /\ \A j \in Events("fd") :
                   (j < k /\ log[j].path = log[k].path) => Failed(j))
          => log[k].val = None /\ NotFound(log[k].path)
    /\ \A i \in DOMAIN processed_data :
          LET e == data[i]
              args == Get(e, "arguments")
          IN  ~Blank(e) =>
                IF NotFound(OriginalAbsFile(e)) THEN processed_data[i] = e
                ELSE \A t \in DOMAIN args :
                        (ArgumentKind(args[t]) # "keep"
                           /\ NotFound(ArgumentPath(args[t], Get(e, "directory"))))
                        => Get(processed_data[i], "arguments")[t] = args[t]
    /\ (pc = "done" /\ ~interrupted) =>
          Len(out_file) = Len(data) /\ status = "success"

C11_Witness ==
    /\ pc = "done" /\ ~interrupted /\ pass = "first" /\ status = "success"
    /\ ~fd_missing
    /\ Len(data) = 1 /\ out_file[1] # data[1]
    /\ \E t \in DOMAIN data[1].arguments :
          /\ data[1].arguments[t] = TokOther
          /\ out_file[1].arguments[t] = TokOther
    /\ \E k \in Events("fd") :
          /\ Failed(k) /\ log[k].how = "strategy1" /\ WouldMatch(k) # {}
          /\ log[k + 1].ev = "fd" /\ log[k + 1].val # None
    /\ \E k \in Events("fd") :
          /\ Failed(k) /\ log[k].how = "strategy2" /\ WouldMatch(k) # {}
          /\ log[k].path = TokOther.v

\* The Target elements of the project whose TargetName is the name given.
TargetsNamed ==
    {k \in DOMAIN uv_root : uv_root[k].TargetName = uv_target_name.v}

\* C12: once parse_uvprojx has chosen its target, it is the first target
\* whose TargetName equals the name given when there is one, and the first
\* target of the project when no name is given or no target has that name;
\* the files returned are that target's.
C12_NamedTargetIsExtracted ==
    LET named == ~uv_target_name.none /\ uv_target_name.v # "" /\ TargetsNamed # {}
        wanted == IF named
                  THEN CHOOSE k \in TargetsNamed : \A j \in TargetsNamed : k <= j
                  ELSE 1
    IN  /\ uv_pc = "options" => uv_target = wanted
        /\ uv_pc = "return" =>
              uv_target = wanted /\ uv_files = FilesData(uv_root[wanted].Files)

\* The i-th part of a list of parts counted from its right end.
FromRight(parts, i) == parts[Len(parts) - i + 1]

\* The number of pairs of parts, counted from the right ends of both lists,
\* that are equal up to the first pair that is not.
EqualRun(a, b) ==
    LET runs == {n \in 0..Min(Len(a), Len(b)) :
                    \A j \in 1..n : FromRight(a, j) = FromRight(b, j)}
    IN  CHOOSE n \in runs : \A k \in runs : k <= n

\* C13: the score of a candidate is n + f: n the number of equal pairs of
\* parts from the right up to the first unequal pair, and f the characters
\* the parts of that pair share over the characters either has (0 when there
\* is no unequal pair within the shorter list, or neither part has a
\* character); pairs to the left of the first unequal pair add nothing.
C13_ScoreIsRunPlusOneFraction ==
    gbm_pc = "returned" =>
        \A m \in DOMAIN gbm_matches :
            LET a == OriginalSuffixParts(gbm_original)
                b == Split(gbm_matches[m], SEP)
                n == EqualRun(a, b)
                x == CharSet(FromRight(a, n + 1))
                y == CharSet(FromRight(b, n + 1))
                score == gbm_scores[m]
            IN  IF n = Min(Len(a), Len(b)) \/ x \cup y = {}
                THEN score.num = n * score.den
                ELSE score.num * Cardinality(x \cup y)
                        = (n * Cardinality(x \cup y) + Cardinality(x \cap y))
                          * score.den

C13_Witness ==
    /\ gbm_pc = "returned"
    /\ \E m \in DOMAIN gbm_matches :
          LET a == OriginalSuffixParts(gbm_original)
              b == Split(gbm_matches[m], SEP)
              n == EqualRun(a, b)
          IN  /\ n = 1 /\ Len(a) >= 3 /\ Len(b) >= 3
              /\ FromRight(a, 3) = FromRight(b, 3)
              /\ gbm_scores[m].num * 5 = 8 * gbm_scores[m].den

\* The positions of the candidates that no candidate outscores.
TopScored ==
    {m \in DOMAIN gbm_matches :
        \A n \in DOMAIN gbm_matches : ~FracLess(gbm_scores[m], gbm_scores[n])}

\* C14: of a list that has candidates the loop keeps the one with the highest
\* score, and of several with that score the one earliest in the list.
C14_FirstOfTheHighestWins ==
    (gbm_pc = "returned" /\ gbm_matches # <<>>) =>
        LET first == CHOOSE m \in TopScored : \A n \in TopScored : m <= n
        IN  /\ gbm_best.path = gbm_matches[first]
            /\ gbm_best.score = gbm_scores[first]
            /\ gbm_result # None => gbm_result = Abspath(gbm_matches[first])

C14_Witness ==
    /\ gbm_pc = "returned"
    /\ Len(gbm_matches) = 2
    /\ gbm_matches[1] # gbm_matches[2]
    /\ TopScored = {1, 2}
    /\ gbm_result = Abspath(gbm_matches[1])

\* The suffix parts [src, driver, uart.c] and the closing parts [drv, uart.c].
SrcDriverUart ==
    << <<"s", "r", "c">>, <<"d", "r", "i", "v", "e", "r">>, UartName >>

DrvUart == << <<"d", "r", "v">>, UartName >>

\* The positions of the candidates whose path ends in the parts [drv, uart.c].
EndingInDrvUart ==
    {m \in DOMAIN gbm_matches :
        LET parts == Split(gbm_matches[m], SEP)
        IN  Len(parts) >= 2 /\ LastN(parts, 2) = DrvUart}

\* C16 as claimed: against the suffix parts [src, driver, uart.c] a candidate
\* ending in [drv, uart.c] scores below 3/2 and is not returned.
C16_DrvCandidateRejected ==
    (gbm_pc = "returned" /\ OriginalSuffixParts(gbm_original) = SrcDriverUart) =>
        \A m \in EndingInDrvUart :
            /\ FracLess(gbm_scores[m], MIN_SCORE_THRESHOLD)
            /\ gbm_result # Abspath(gbm_matches[m])

\* C16, amended: against the suffix parts [src, driver, uart.c] a candidate
\* ending in [drv, uart.c] scores 1 + 3/5 ('driver' and 'drv' share 3 of their
\* 5 characters), which is not below 3/2: the list is not rejected, and the
\* candidate is returned unless an earlier candidate scores as much or
\* another scores more.
C16_DrvCandidateScoresEightFifths ==
    (gbm_pc = "returned" /\ OriginalSuffixParts(gbm_original) = SrcDriverUart) =>
        \A m \in EndingInDrvUart :
            /\ gbm_scores[m].num * 5 = 8 * gbm_scores[m].den
            /\ ~FracLess(gbm_scores[m], MIN_SCORE_THRESHOLD)
            /\ gbm_result # None
            /\ (\A n \in DOMAIN gbm_matches :
                    /\ ~FracLess(gbm_scores[m], gbm_scores[n])
                    /\ n < m => FracLess(gbm_scores[n], gbm_scores[m]))
               => gbm_result = Abspath(gbm_matches[m])

C16_Witness ==
    /\ gbm_pc = "returned"
    /\ OriginalSuffixParts(gbm_original) = SrcDriverUart
    /\ Len(gbm_matches) = 2
    /\ EndingInDrvUart = {2}
    /\ gbm_result = Abspath(gbm_matches[2])

\* The last part of a path, parts[-1] of its split at the separator.
LastPart(path) == FromRight(Split(path, SEP), 1)

\* C18: a path that is returned has the last part of the original path as
\* its last part, letter case included, and nothing is returned for an
\* original path with a single part after 'output/build/'.
C18_ResolvedKeepsFileName ==
    gbm_pc = "returned" =>
        /\ gbm_result # None =>
              /\ LastPart(gbm_result) = LastPart(gbm_original)
              /\ LastPart(gbm_best.path) = LastPart(gbm_original)
        /\ (Contains(gbm_original, OUTPUT_BUILD)
               /\ Len(OriginalSuffixParts(gbm_original)) = 1)
           => gbm_result = None

C18_Witness ==
    /\ gbm_pc = "returned"
    /\ gbm_result # None
    /\ \E m \in DOMAIN gbm_matches :
          /\ LastPart(gbm_matches[m]) # LastPart(gbm_original)
          /\ LowerCase(LastPart(gbm_matches[m])) = LastPart(gbm_original)

\* The directory k levels above a path; the root is its own parent.
RECURSIVE Ancestor(_, _)
Ancestor(path, k) == IF k = 0 THEN path ELSE Ancestor(Dirname(path), k - 1)

\* The number of parts of the relative path from the original directory of
\* an entry to its original absolute file.
Levels(e) ==
    Len(Split(Relpath(OriginalAbsFile(e), Get(e, "directory")), SEP))

\* C15: for every entry whose source file is found, the emitted 'directory'
\* is the found file's ancestor as many levels up as the relative path from
\* the original directory to the original file has parts, and 'directory'
\* joined with the emitted 'file' is the found file.
C15_DirectoryIsAncestorOfFound ==
    \A i \in DOMAIN processed_data :
        (FileReturn(i) # 0 /\ log[FileReturn(i)].val # None) =>
            LET found == log[FileReturn(i)].val
                e == processed_data[i]
            IN  /\ e.directory = Ancestor(Abspath(found), Levels(data[i]))
                /\ Abspath(Join(e.directory, e.file)) = Abspath(found)

C15_Witness ==
    \E i \in DOMAIN processed_data :
        /\ FileReturn(i) # 0 /\ log[FileReturn(i)].val # None
        /\ Levels(data[i]) = 2
        /\ processed_data[i].directory = Root2
        /\ Len(Split(processed_data[i].file, SEP)) = 2

\* C17: every key of the input entry is a key of the emitted entry, a key
\* other than 'directory', 'file' and 'arguments' keeps its value, and no
\* other key is added; for entries passed through and for rewritten ones.
C17_OtherKeysKept ==
    \A i \in DOMAIN processed_data :
        /\ data[i].has \subseteq processed_data[i].has
        /\ processed_data[i].has \ data[i].has \subseteq {"directory", "file", "arguments"}
        /\ \A key \in data[i].has \ {"directory", "file", "arguments"} :
              Get(processed_data[i], key) = Get(data[i], key)

C17_Witness ==
    /\ Len(processed_data) = 2
    /\ "command" \in data[1].has /\ processed_data[1] # data[1]
    /\ processed_data[1].directory # data[1].directory
    /\ processed_data[1].command = data[1].command
    /\ "command" \in data[2].has /\ processed_data[2] = data[2]

\* C19: when the closing banner is printed, every line the Keil command
\* wrote has been printed, in order, and the banner is the error banner
\* whenever one of those lines reports an error.
C19_WholeLogBeforeBanner ==
    banner # "" =>
        /\ printed = written
        /\ (\E n \in DOMAIN written : IsErrorLine(written[n]))
           => banner = Message_err

====
